---- MODULE Spec2Model ----
(***************************************************************************)
(* A model of the session core of go-datera (src/src/dsdk/connection.go):  *)
(* one APIConnection shared by several goroutines, the request pipeline    *)
(* doRequest, Login, the verb wrappers, the response classifier            *)
(* handleBadResponse and the parameter encoder parseParams.                *)
(*                                                                         *)
(* Go strings that the code cuts, joins or escapes are sequences of        *)
(* one-character strings; opaque texts are TLA+ strings.  Every goroutine  *)
(* has a call stack of frames; a frame's pc names the statement it is at.  *)
(***************************************************************************)
EXTENDS Integers, Sequences, FiniteSets, TLC

\* ------------------------------------------------------------- bounds
MaxCalls == 2
MaxDepth == 5

\* the goroutines that share the session
Threads == {1, 2}

\* ------------------------------------------------------------ strings
RECURSIVE SplitAcc(_, _, _, _)
SplitAcc(s, sep, cur, acc) ==
    IF s = <<>> THEN Append(acc, cur)
    ELSE IF Head(s) = sep THEN SplitAcc(Tail(s), sep, <<>>, Append(acc, cur))
    ELSE SplitAcc(Tail(s), sep, Append(cur, Head(s)), acc)

\* strings.Split(s, sep) for a one-character separator
Split(s, sep) == SplitAcc(s, sep, <<>>, <<>>)

RECURSIVE TrimLeft(_, _)
TrimLeft(s, c) == IF s # <<>> /\ Head(s) = c THEN TrimLeft(Tail(s), c) ELSE s

RECURSIVE TrimRight(_, _)
TrimRight(s, c) ==
    IF s # <<>> /\ s[Len(s)] = c THEN TrimRight(SubSeq(s, 1, Len(s) - 1), c) ELSE s

\* strings.Trim(s, c) for a one-character cutset
Trim(s, c) == TrimRight(TrimLeft(s, c), c)

RECURSIVE Join(_, _)
\* strings.Join(parts, sep)
Join(parts, sep) ==
    IF parts = <<>> THEN <<>>
    ELSE IF Len(parts) = 1 THEN parts[1]
    ELSE parts[1] \o sep \o Join(Tail(parts), sep)

\* characters url.QueryEscape leaves alone (the ones the model's inputs use)
Unreserved == {"a", "b", "k", "q", "x", "1", "2", "3", "D", "5"}

EscapeChar(c) ==
    IF c \in Unreserved THEN <<c>>
    ELSE IF c = " " THEN <<"+">>
    ELSE IF c = "=" THEN <<"%", "3", "D">>
    ELSE IF c = "%" THEN <<"%", "2", "5">>
    ELSE IF c = "+" THEN <<"%", "2", "B">>
    ELSE <<"%", "2", "F">>

RECURSIVE QueryEscape(_)
\* url.QueryEscape
QueryEscape(s) == IF s = <<>> THEN <<>> ELSE EscapeChar(Head(s)) \o QueryEscape(Tail(s))

\* ---------------------------------------------------------- constants
permDeniedError == "PermissionDeniedError"
USetToken == <<>>
httpErrors == {400, 401, 422, 500}

\* the error values of the package
NilErr == [kind |-> "nil", status |-> 0]
Retry == [kind |-> "Retry", status |-> 0]
StatusErr(status) == [kind |-> "Fatal", status |-> status]
TransportErr == [kind |-> "Transport", status |-> 0]
ReadErr == [kind |-> "BodyRead", status |-> 0]
DecodeErr == [kind |-> "Decode", status |-> 0]
MessageErr == [kind |-> "Message", status |-> 0]
NoTokenErr == [kind |-> "NoApiToken", status |-> 0]

\* byte slices: nothing, text that is no JSON, or a JSON object of which the
\* decoders read name (ErrResponse21), message (ErrResponse21) and key (ReturnLogin)
EmptyBytes == [kind |-> "empty", name |-> "", key |-> <<>>, message |-> ""]
Garbage == [kind |-> "text", name |-> "", key |-> <<>>, message |-> ""]
JSONBody(name, key, message) ==
    [kind |-> "json", name |-> name, key |-> key, message |-> message]

\* json.Unmarshal(b, &v) returns nil
Unmarshals(b) == b.kind = "json"

\* ------------------------------------------------------ HTTP responses
\* An http.Response: the status, the body the server sent, whether reading the
\* body fails, and whether the body reader has already been read to its end.
Response(status, body, readFails) ==
    [status |-> status, body |-> body, readFails |-> readFails, consumed |-> FALSE]

\* ioutil.ReadAll(resp.Body): the bytes not yet read, none once the reader is at EOF
ReadAllErrs(resp) == ~resp.consumed /\ resp.readFails
ReadAllBytes(resp) == IF resp.consumed THEN EmptyBytes ELSE resp.body
Consumed(resp) == [resp EXCEPT !.consumed = TRUE]

Panic == [kind |-> "panic", status |-> 0]

\* mutant: the classifier decides on the status alone and never opens the body
handleBadResponseByStatus(resp) ==
    IF resp.status = 401 THEN Retry
    ELSE IF resp.status \in httpErrors THEN StatusErr(resp.status)
    ELSE NilErr

\* handleBadResponse(resp): the error it returns, or Panic where it panics.
\* It reads resp.Body itself (line 421) and decodes what that read gives.
handleBadResponse(resp) ==
    LET ok == resp.status \in httpErrors
        b == ReadAllBytes(resp)
    IN  IF resp.status = 401 /\ (ReadAllErrs(resp) \/ ~Unmarshals(b)) THEN Panic
        ELSE IF resp.status = 401 /\ b.name = permDeniedError THEN Retry
        ELSE IF ok THEN StatusErr(resp.status)
        ELSE NilErr

\* --------------------------------------------------- parameter encoder
\* Go values passed as ...interface{}
StrVal(s) == [type |-> "string", s |-> s, b |-> FALSE]
BoolVal(b) == [type |-> "bool", s |-> <<>>, b |-> b]
IntVal == [type |-> "int", s |-> <<>>, b |-> FALSE]
MapVal == [type |-> "map", s |-> <<>>, b |-> FALSE]
NilVal == [type |-> "nil", s |-> <<>>, b |-> FALSE]

\* the map a MapVal argument holds (one nested structure stands for all)
NestedMap == (<<"x">> :> IntVal)
EmptyMap == <<>>

\* index of the last "key=value" string whose key is k
LastWithKey(params, k) ==
    CHOOSE i \in 1..Len(params) :
        /\ Split(params[i].s, "=")[1] = k
        /\ \A j \in (i + 1)..Len(params) : Split(params[j].s, "=")[1] # k

\* lines 455-460: p[1], made a bool when it reads true or false
Coerce(v) ==
    IF v = <<"true">> THEN BoolVal(TRUE)
    ELSE IF v = <<"false">> THEN BoolVal(FALSE)
    ELSE StrVal(v)

\* parseParams(params...): out is "ok", "error" or "panic"
parseParams(params) ==
    IF Len(params) = 0 THEN [out |-> "ok", val |-> EmptyMap]
    ELSE IF params[1].type = "map" THEN [out |-> "ok", val |-> NestedMap]
    ELSE IF params[1].type = "nil" THEN [out |-> "error", val |-> EmptyMap]
    ELSE IF \E i \in 1..Len(params) : params[i].type # "string"
         THEN [out |-> "panic", val |-> EmptyMap]
    ELSE IF \E i \in 1..Len(params) : Len(Split(params[i].s, "=")) < 2
         THEN [out |-> "panic", val |-> EmptyMap]
    ELSE LET keys == {Split(params[i].s, "=")[1] : i \in 1..Len(params)}
         IN  [out |-> "ok",
              val |-> [k \in keys |->
                          Coerce(Split(params[LastWithKey(params, k)].s, "=")[2])]]

\* json.Marshal(params): the body bytes of a request
Marshal(params) == [kind |-> "json", obj |-> params]
NilBody == [kind |-> "nil", obj |-> EmptyMap]

\* ---------------------------------------------------- template renderer
\* the two URL templates, as text
connTemplate ==
    << "http://", "{{.", "hostname", "}}", ":", "{{.", "port", "}}",
       "/v", "{{.", "version", "}}", "/", "{{.", "endpoint", "}}" >>
secConnTemplate ==
    << "https://", "{{.", "hostname", "}}", ":", "{{.", "port", "}}",
       "/v", "{{.", "version", "}}", "/", "{{.", "endpoint", "}}" >>

\* strings.Contains(s, substr)
Contains(s, substr) ==
    \E i \in 0..(Len(s) - Len(substr)) : SubSeq(s, i + 1, i + Len(substr)) = substr

\* template.New("format").Parse(fstring): literal text and {{.name}} actions
Lit(text) == <<"lit", text>>
Ph(name) == <<"ph", name>>
RECURSIVE Parse(_)
Parse(fstring) ==
    IF fstring = <<>> THEN <<>>
    ELSE IF Len(fstring) >= 3 /\ fstring[1] = "{{." /\ fstring[3] = "}}"
    THEN <<Ph(<<fstring[2]>>)>> \o Parse(SubSeq(fstring, 4, Len(fstring)))
    ELSE <<Lit(<<fstring[1]>>)>> \o Parse(Tail(fstring))

RECURSIVE Execute(_, _)
\* tpl.Execute(&buf, argm): a key the map lacks renders as <no value>
Execute(tpl, argm) ==
    IF tpl = <<>> THEN <<>>
    ELSE LET it == Head(tpl)
             text == IF it[1] = "lit" THEN it[2]
                     ELSE IF it[2] \in DOMAIN argm THEN argm[it[2]]
                     ELSE <<"<no value>">>
         IN  text \o Execute(Tail(tpl), argm)

\* parseTemplate(fstring, argm) for a map argument: ok is FALSE when the text
\* {{.k}} of a key k of the map does not occur in the template
parseTemplate(fstring, argm) ==
    IF \E k \in DOMAIN argm : ~Contains(fstring, <<"{{.">> \o k \o <<"}}">>)
    THEN [ok |-> FALSE, text |-> <<>>]
    ELSE [ok |-> TRUE, text |-> Execute(Parse(fstring), argm)]

\* UpdateHeaders(headers...) on a header map; panics (ok FALSE) on a string
\* without "="
UpdateHeadersOk(hs) == \A i \in 1..Len(hs) : Len(Split(hs[i], "=")) >= 2
RECURSIVE UpdateHeadersMap(_, _)
UpdateHeadersMap(H, hs) ==
    IF hs = <<>> THEN H
    ELSE LET h == Split(Head(hs), "=")
         IN  UpdateHeadersMap((h[1] :> h[2]) @@ H, Tail(hs))

\* -------------------------------------------------------------- inputs
\* what the server may answer
Statuses == {200, 400, 401, 404, 422, 500}
Key1 == <<"k", "1">>
Key2 == <<"k", "=", "2">>
PermDeniedBody == JSONBody(permDeniedError, <<>>, "denied")
OtherErrBody == JSONBody("AuthFailedError", <<>>, "failed")
LoginBodies == {JSONBody("", Key1, ""), JSONBody("", Key2, "")}
DataBody == JSONBody("", <<>>, "")
RespBodies == {Garbage, PermDeniedBody, OtherErrBody, DataBody} \cup LoginBodies
Responses ==
    {Response(200, b, FALSE) : b \in {Garbage, DataBody} \cup LoginBodies}
        \cup {Response(401, b, FALSE) : b \in {Garbage, PermDeniedBody, OtherErrBody}}
        \cup {Response(500, b, FALSE) : b \in {Garbage, OtherErrBody, JSONBody("", Key1, "")}}
        \cup {Response(st, OtherErrBody, FALSE) : st \in {400, 404, 422}}
        \cup {Response(200, DataBody, TRUE)}

\* what the callers may pass
Endpoints == {<<"/", "a", "/">>}
QParamChoices == {<<>>, << <<"q", "=", "a", " ", "b">> >>}
BodyParamChoices ==
    {<<>>, <<StrVal(<<"a", "=", "1">>), StrVal(<<"b", "=", "true">>)>>, <<MapVal>>}
\* first body arguments that are neither a string nor a map
BadBodyParamChoices == {<<IntVal>>, <<NilVal>>}

\* the session's construction arguments (NewAPIConnection)
Hostname == <<"h">>
Port == <<"7", "7", "1", "8">>
APIVersion == <<"2", ".", "1">>
Username == <<"a", "d", "m", "i", "n">>
Password == <<"p", "w">>
RootTenant == <<"/", "r", "o", "o", "t">>
ExtraHeaders == <<>>

\* the construction arguments that vary: the secure flag, the extra headers and
\* the tenant
Config(secure, headers, tenant) ==
    [secure |-> secure, headers |-> headers, tenant |-> tenant]
Configs ==
    { Config(FALSE, ExtraHeaders, RootTenant),
      Config(TRUE, (<<"Content-Type">> :> <<"text/plain">>) @@ (<<"tenant">> :> <<"x">>),
             <<"a", "=", "b">>) }

\* what the callers may pass to UpdateHeaders
HeaderChoices == { << <<"tenant", "=", "/", "t", "2">> >> }

\* --------------------------------------------------------------- state
VARIABLES
    Mutex,      \* r.Mutex: 0 when free, else the goroutine whose Lock() it holds
    Method,     \* r.Method
    Endpoint,   \* r.Endpoint
    Headers,    \* r.Headers
    QParams,    \* r.QParams
    APIToken,   \* r.APIToken
    Secure,     \* r.Secure
    Tenant,     \* r.Tenant
    stack,      \* per goroutine, the frames of the calls it is in (last = innermost)
    calls,      \* the API calls started so far
    cur,        \* per goroutine, what its current API call has done so far
    result,     \* per goroutine, what its last API call returned
    crashed,    \* why the process died and in which goroutine (NoCrash while it runs)
    issued,     \* the non-empty keys that successful login responses have carried
    retried,    \* whether a call has ever entered the re-authentication of line 286
    overwritten, \* the header names that extra headers or UpdateHeaders calls have set
    input,      \* the arguments of a function that is applied on its own
    output      \* what that function returned

session == <<Method, Endpoint, Headers, QParams, APIToken, Secure, Tenant>>
vars == <<Mutex, Method, Endpoint, Headers, QParams, APIToken, Secure, Tenant,
          stack, calls, cur, result, crashed, issued, retried, overwritten,
          input, output>>
ghost == <<issued, retried, overwritten>>
pure == <<input, output>>

NoResp == Response(0, EmptyBytes, FALSE)
NoReq == [method |-> "", url |-> <<>>, headers |-> <<>>, body |-> NilBody]
NoRet == [bytes |-> EmptyBytes, err |-> NilErr]

\* the frame of a doRequest(method, endpoint, body, qparams, sensitive, retry) call
DoRequestFrame(method, endpoint, body, qparams, sensitive, retry) ==
    [fn |-> "doRequest", pc |-> "lock", method |-> method, endpoint |-> endpoint,
     body |-> body, qparams |-> qparams, sensitive |-> sensitive, retry |-> retry,
     req |-> NoReq, resp |-> NoResp, rbody |-> EmptyBytes, err |-> NilErr,
     ret |-> NoRet]

\* the frame of a Login() call
LoginFrame == [fn |-> "Login", pc |-> "check", ret |-> NoRet]

\* cur and result: the operation, the Login calls made inside it, the exchanges
\* attempted, and the responses received, each with the depth of its frame; cur
\* also keeps the Go type of a first body argument that is neither a string nor
\* a map
NoCall == [op |-> "none", arg1 |-> "", logins |-> 0, exch |-> 0, resps |-> <<>>]
NoResult == [op |-> "none", bytes |-> EmptyBytes, err |-> NilErr,
             logins |-> 0, exch |-> 0, resps |-> <<>>]
NoCrash == [why |-> "", by |-> 0]

\* mutant: a constructor that puts no Content-Type default into the header map
InitHeadersNoDefault(headers, tenant) ==
    UpdateHeadersMap(headers, << <<"tenant", "=">> \o tenant >>)

\* NewAPIConnection: the header map after lines 99-102 and the UpdateHeaders of
\* line 115
InitHeaders(headers, tenant) ==
    UpdateHeadersMap(headers @@ (<<"Content-Type">> :> <<"application/json">>),
                     << <<"tenant", "=">> \o tenant >>)

NoInput == <<>>
NoOutput == [out |-> "none"]

InitSession ==
    /\ Mutex = 0
    /\ Method = ""
    /\ Endpoint = <<>>
    /\ \E c \in Configs :
          /\ Headers = InitHeaders(c.headers, c.tenant)
          /\ Secure = c.secure
          /\ Tenant = c.tenant
          /\ overwritten = DOMAIN c.headers \ {<<"tenant">>}
    /\ QParams = <<>>
    /\ APIToken = USetToken
    /\ stack = [t \in Threads |-> <<>>]
    /\ calls = 0
    /\ cur = [t \in Threads |-> NoCall]
    /\ result = [t \in Threads |-> NoResult]
    /\ crashed = NoCrash
    /\ issued = {}
    /\ retried = FALSE

Init == InitSession /\ input = NoInput /\ output = NoOutput

Running == crashed = NoCrash
Top(t) == stack[t][Len(stack[t])]
InFrame(t, fn, pc) == stack[t] # <<>> /\ Top(t).fn = fn /\ Top(t).pc = pc
SetTop(t, f) == [stack EXCEPT ![t] = [@ EXCEPT ![Len(@)] = f]]

\* ------------------------------------------------------------- helpers
\* A return statement of goroutine t's innermost call: the frame is popped and
\* the values go to the calling frame, or to the API caller.
ReturnValue(t, bytes, err) ==
    LET n == Len(stack[t])
    IN  IF n = 1
        THEN /\ stack' = [stack EXCEPT ![t] = <<>>]
             /\ result' = [result EXCEPT ![t] =
                              [op |-> cur'[t].op, bytes |-> bytes, err |-> err,
                               logins |-> cur'[t].logins, exch |-> cur'[t].exch,
                               resps |-> cur'[t].resps]]
        ELSE /\ stack' = [stack EXCEPT ![t] =
                              [SubSeq(@, 1, n - 1) EXCEPT
                                  ![n - 1].ret = [bytes |-> bytes, err |-> err]]]
             /\ UNCHANGED result

\* A call statement of goroutine t's innermost call: the caller moves to pc, the
\* callee's frame is pushed.
PushFrame(t, pc, frame) ==
    stack' = [stack EXCEPT ![t] = Append([@ EXCEPT ![Len(@)].pc = pc], frame)]

\* the switch of lines 199-210 on strings.ToLower(method)
HTTPMethod(method) ==
    IF method = "get" THEN "GET"
    ELSE IF method = "put" THEN "PUT"
    ELSE IF method = "post" THEN "POST"
    ELSE IF method = "delete" THEN "DELETE"
    ELSE "panic"

\* url.Parse inside http.NewRequest refuses a "%" that does not start an escape
Hex == {"0", "1", "2", "3", "4", "5", "6", "7", "8", "9", "A", "B", "D", "F"}
NewRequestOk(conn) ==
    \A i \in 1..Len(conn) :
        conn[i] = "%" => i + 2 <= Len(conn) /\ conn[i + 1] \in Hex /\ conn[i + 2] \in Hex

\* prepConn, lines 166-181: the URL before the query string
prepConnURL(secure, hostname, port, endpoint, version) ==
    parseTemplate(IF secure THEN secConnTemplate ELSE connTemplate,
                  (<<"hostname">> :> hostname) @@ (<<"port">> :> port)
                      @@ (<<"endpoint">> :> endpoint) @@ (<<"version">> :> version))

\* prepConn, lines 182-184: the header map after the token is added
prepConnHeaders(H, token) ==
    IF token # USetToken
    THEN UpdateHeadersMap(H, << <<"Auth-Token", "=">> \o token >>)
    ELSE H

\* prepConn, lines 185-187: the query parameters, escaped in place
prepConnQParams(qparams) == [i \in 1..Len(qparams) |-> QueryEscape(qparams[i])]

\* prepConn, lines 188-192
prepConnJoin(conn, qparams) ==
    LET q == Join(qparams, <<"&">>)
    IN  IF Len(q) > 0 THEN conn \o <<"?">> \o q ELSE conn

\* Mutex.Unlock(): unlocking a free mutex is a fatal runtime error
UnlockFatal == Mutex = 0

EncodingErr == [kind |-> "Encoding", status |-> 0]

\* a panic nobody recovers, or a fatal runtime error: the process is gone
Crash(t, why) ==
    /\ crashed' = [why |-> why, by |-> t]
    /\ UNCHANGED <<Mutex, session, stack, calls, cur, result, ghost, pure>>

\* ------------------------------------------------------------ API calls
\* Put, Post and Delete (lines 314-376): encode the parameters, marshal them and
\* hand the body to doRequest with retry false.
BodyVerb(t, op, endpoint, sensitive, bodyp) ==
    LET pp == parseParams(bodyp)
        call == [NoCall EXCEPT !.op = op,
                               !.arg1 = IF bodyp = <<>> \/ bodyp[1].type \in {"string", "map"}
                                        THEN "" ELSE bodyp[1].type]
    IN  IF pp.out = "panic"
        THEN /\ crashed' = [why |-> "panic: parseParams", by |-> t]
             /\ cur' = [cur EXCEPT ![t] = call]
             /\ UNCHANGED <<Mutex, session, stack, calls, result, ghost, pure>>
        ELSE /\ calls' = calls + 1
             /\ cur' = [cur EXCEPT ![t] = call]
             /\ IF pp.out = "error"
                THEN /\ result' = [result EXCEPT ![t] =
                                      [NoResult EXCEPT !.op = op, !.err = EncodingErr]]
                     /\ UNCHANGED stack
                ELSE /\ stack' = [stack EXCEPT ![t] =
                                     <<DoRequestFrame(op, endpoint, Marshal(pp.val),
                                                      <<>>, sensitive, FALSE)>>]
                     /\ result' = [result EXCEPT ![t] = NoResult]
             /\ UNCHANGED <<Mutex, session, crashed, ghost, pure>>

\* Get (lines 296-298)
Get(t, endpoint, qparams) ==
    /\ calls' = calls + 1
    /\ cur' = [cur EXCEPT ![t] = [NoCall EXCEPT !.op = "get"]]
    /\ stack' = [stack EXCEPT ![t] =
                    <<DoRequestFrame("get", endpoint, NilBody, qparams, FALSE, FALSE)>>]
    /\ result' = [result EXCEPT ![t] = NoResult]
    /\ UNCHANGED <<Mutex, session, crashed, ghost, pure>>

\* a caller enters Login()
CallLogin(t) ==
    /\ calls' = calls + 1
    /\ cur' = [cur EXCEPT ![t] = [NoCall EXCEPT !.op = "login"]]
    /\ stack' = [stack EXCEPT ![t] = <<LoginFrame>>]
    /\ result' = [result EXCEPT ![t] = NoResult]
    /\ UNCHANGED <<Mutex, session, crashed, ghost, pure>>

\* a caller calls UpdateHeaders (lines 157-163): it takes no lock and returns
\* nothing, and a string without "=" indexes past the end of its split and
\* panics
UpdateHeaders(t, headers) ==
    IF ~UpdateHeadersOk(headers) THEN Crash(t, "panic: UpdateHeaders")
    ELSE /\ calls' = calls + 1
         /\ Headers' = UpdateHeadersMap(Headers, headers)
         /\ overwritten' = overwritten \cup
                              {Split(headers[i], "=")[1] : i \in 1..Len(headers)}
         /\ UNCHANGED <<Mutex, Method, Endpoint, QParams, APIToken, Secure, Tenant,
                        stack, cur, result, crashed, issued, retried, pure>>

\* A goroutine that is in no call starts one of the API's operations.
Call(t) ==
    /\ Running
    /\ stack[t] = <<>>
    /\ calls < MaxCalls
    /\ \/ \E e \in Endpoints, q \in QParamChoices : Get(t, e, q)
       \/ \E e \in Endpoints, b \in BodyParamChoices : BodyVerb(t, "put", e, FALSE, b)
       \/ \E e \in Endpoints, b \in BodyParamChoices : BodyVerb(t, "post", e, FALSE, b)
       \/ \E e \in Endpoints, b \in BodyParamChoices : BodyVerb(t, "delete", e, FALSE, b)
       \/ CallLogin(t)

\* ------------------------------------------------------------ doRequest
\* mutant: Lock() that does not wait for the mutex to be free
LockNoWait(t) ==
    /\ Running
    /\ InFrame(t, "doRequest", "lock")
    /\ Mutex' = t
    /\ stack' = SetTop(t, [Top(t) EXCEPT !.pc = "build"])
    /\ UNCHANGED <<session, calls, cur, result, crashed, ghost, pure>>

\* line 196: r.Mutex.Lock() blocks while the mutex is held
Lock(t) ==
    /\ Running
    /\ InFrame(t, "doRequest", "lock")
    /\ Mutex = 0
    /\ Mutex' = t
    /\ stack' = SetTop(t, [Top(t) EXCEPT !.pc = "build"])
    /\ UNCHANGED <<session, calls, cur, result, crashed, ghost, pure>>

\* lines 198-257: the method, endpoint and query parameters are stored on the
\* session, prepConn builds the URL, adds the token header and escapes the
\* query parameters in place (r.QParams shares the caller's slice), and the
\* request is made with the session's headers.  NewUUID is taken to succeed.
Build(t) ==
    /\ Running
    /\ InFrame(t, "doRequest", "build")
    /\ LET f == Top(t)
           m == HTTPMethod(f.method)
           ep == Trim(f.endpoint, "/")
           tpl == prepConnURL(Secure, Hostname, Port, ep, APIVersion)
           H == prepConnHeaders(Headers, APIToken)
           qp == prepConnQParams(f.qparams)
           conn == prepConnJoin(tpl.text, qp)
       IN  IF m = "panic" THEN Crash(t, "panic: method")
           ELSE IF ~tpl.ok
           THEN /\ Method' = m
                /\ Endpoint' = ep
                /\ QParams' = f.qparams
                /\ UNCHANGED cur
                /\ ReturnValue(t, EmptyBytes, [kind |-> "Template", status |-> 0])
                /\ UNCHANGED <<Mutex, Headers, APIToken, Secure, Tenant, calls, crashed, ghost, pure>>
           ELSE IF ~NewRequestOk(conn) THEN Crash(t, "panic: nil request")
           ELSE /\ Method' = m
                /\ Endpoint' = ep
                /\ QParams' = qp
                /\ Headers' = H
                /\ stack' = SetTop(t, [f EXCEPT
                       !.pc = "do", !.qparams = qp,
                       !.req = [method |-> m, url |-> conn, headers |-> H,
                                body |-> f.body]])
                /\ UNCHANGED <<Mutex, APIToken, Secure, Tenant, calls, cur, result, crashed, ghost, pure>>

\* mutant: a transport failure also drops the cached token
DoClearsToken(t) ==
    /\ Running
    /\ InFrame(t, "doRequest", "do")
    /\ \/ /\ cur' = [cur EXCEPT ![t].exch = @ + 1]
          /\ ReturnValue(t, EmptyBytes, TransportErr)
          /\ APIToken' = USetToken
          /\ UNCHANGED <<Mutex, Method, Endpoint, Headers, QParams, Secure, Tenant,
                         calls, crashed, ghost, pure>>
       \/ \E resp \in Responses :
          /\ cur' = [cur EXCEPT ![t].exch = @ + 1,
                                ![t].resps = Append(@, [depth |-> Len(stack[t]),
                                                        status |-> resp.status,
                                                        body |-> resp.body])]
          /\ stack' = SetTop(t, [Top(t) EXCEPT !.pc = "classify", !.resp = resp])
          /\ UNCHANGED <<Mutex, session, calls, result, crashed, ghost, pure>>

\* lines 259-262: r.Client.Do(req).  The exchange fails at transport level, and
\* doRequest returns at once, or the server's response arrives.
Do(t) ==
    /\ Running
    /\ InFrame(t, "doRequest", "do")
    /\ \/ /\ cur' = [cur EXCEPT ![t].exch = @ + 1]
          /\ ReturnValue(t, EmptyBytes, TransportErr)
          /\ UNCHANGED <<Mutex, session, calls, crashed, ghost, pure>>
       \/ \E resp \in Responses :
          /\ cur' = [cur EXCEPT ![t].exch = @ + 1,
                                ![t].resps = Append(@, [depth |-> Len(stack[t]),
                                                        status |-> resp.status,
                                                        body |-> resp.body])]
          /\ stack' = SetTop(t, [Top(t) EXCEPT !.pc = "classify", !.resp = resp])
          /\ UNCHANGED <<Mutex, session, calls, result, crashed, ghost, pure>>

\* lines 263-287: the body is read to its end; a read error returns at once.
\* The response, its body reader now at EOF, goes to handleBadResponse; on
\* Retry in a call that is no retry yet the mutex is unlocked (line 287) and the
\* re-authentication follows, any other outcome goes to line 292.
\* the key of a successful login response: a PUT to login answered without
\* error by a JSON body with a non-empty key
LoginKeys(f, rbody, err) ==
    IF /\ f.method = "put" /\ Trim(f.endpoint, "/") = <<"login">>
       /\ err = NilErr /\ Unmarshals(rbody) /\ rbody.key # <<>>
    THEN {rbody.key} ELSE {}

Classify(t) ==
    /\ Running
    /\ InFrame(t, "doRequest", "classify")
    /\ LET f == Top(t)
           rbody == ReadAllBytes(f.resp)
           err == handleBadResponse(Consumed(f.resp))
       IN  IF ReadAllErrs(f.resp)
           THEN /\ UNCHANGED cur
                /\ ReturnValue(t, EmptyBytes, ReadErr)
                /\ UNCHANGED <<Mutex, session, calls, crashed, ghost, pure>>
           ELSE IF err = Panic THEN Crash(t, "panic: Couldn't understand response")
           ELSE IF err = Retry /\ ~f.retry
           THEN IF UnlockFatal THEN Crash(t, "fatal: unlock of unlocked mutex")
                ELSE /\ Mutex' = 0
                     /\ stack' = SetTop(t, [f EXCEPT !.pc = "retry", !.rbody = rbody,
                                                     !.err = err,
                                                     !.resp = Consumed(f.resp)])
                     /\ retried' = TRUE
                     /\ UNCHANGED <<session, calls, cur, result, crashed, issued, overwritten, pure>>
           ELSE /\ stack' = SetTop(t, [f EXCEPT !.pc = "unlock", !.rbody = rbody,
                                                !.err = err,
                                                !.resp = Consumed(f.resp)])
                /\ issued' = issued \cup LoginKeys(f, rbody, err)
                /\ UNCHANGED <<Mutex, session, calls, cur, result, crashed, retried, overwritten, pure>>

\* mutant: Login does its PUT whatever the cached token is
InvokeKindNoCheck(t) ==
    IF InFrame(t, "Login", "check") THEN "put"
    ELSE IF InFrame(t, "doRequest", "retry") THEN "login"
    ELSE IF InFrame(t, "doRequest", "redo") THEN "redo"
    ELSE "none"

\* The call statement the innermost frame of t is at:
\*   "put"   Login, line 386, reached when r.APIToken is empty (line 385)
\*   "login" doRequest, lines 288-289: the token is cleared, Login is called
\*   "redo"  doRequest, line 290: the same request again, with retry true
InvokeKind(t) ==
    IF InFrame(t, "Login", "check") /\ APIToken = USetToken THEN "put"
    ELSE IF InFrame(t, "doRequest", "retry") THEN "login"
    ELSE IF InFrame(t, "doRequest", "redo") THEN "redo"
    ELSE "none"

\* the arguments Login gives Put (lines 380-381, 386)
LoginParams ==
    << StrVal(<<"name", "=">> \o Username), StrVal(<<"password", "=">> \o Password) >>

Invoke(t) ==
    /\ Running
    /\ InvokeKind(t) # "none"
    /\ Len(stack[t]) < MaxDepth
    /\ LET f == Top(t)
           k == InvokeKind(t)
           pp == parseParams(LoginParams)
       IN  IF k = "put"
           THEN IF pp.out # "ok" THEN Crash(t, "panic: parseParams")
                ELSE /\ PushFrame(t, "afterPut",
                            DoRequestFrame("put", <<"login">>, Marshal(pp.val),
                                           <<>>, TRUE, FALSE))
                     /\ UNCHANGED <<Mutex, session, calls, cur, result, crashed, ghost, pure>>
           ELSE IF k = "login"
           THEN /\ APIToken' = USetToken
                /\ PushFrame(t, "redo", LoginFrame)
                /\ cur' = [cur EXCEPT ![t].logins = @ + 1]
                /\ UNCHANGED <<Mutex, Method, Endpoint, Headers, QParams, Secure, Tenant,
                               calls, result, crashed, ghost, pure>>
           ELSE /\ PushFrame(t, "unlock",
                       DoRequestFrame(f.method, f.endpoint, f.body, f.qparams,
                                      f.sensitive, TRUE))
                /\ UNCHANGED <<Mutex, session, calls, cur, result, crashed, ghost, pure>>

\* The return statement the innermost frame of t is at:
\*   "doRequest" lines 292-293: unlock, return rbody, err
\*   "fast"      Login, line 403, when r.APIToken is not empty at line 385
\*   "afterPut"  Login, lines 387-403, with what Put returned
ReturnKind(t) ==
    IF InFrame(t, "doRequest", "unlock") THEN "doRequest"
    ELSE IF InFrame(t, "Login", "check") /\ APIToken # USetToken THEN "fast"
    ELSE IF InFrame(t, "Login", "afterPut") THEN "afterPut"
    ELSE "none"

\* mutant: a Login that accepts a login result without a key
LoginErrNoKeyCheck(ret) ==
    IF ret.err # NilErr
    THEN IF ~Unmarshals(ret.bytes) THEN ret.err ELSE MessageErr
    ELSE IF ~Unmarshals(ret.bytes) THEN DecodeErr
    ELSE NilErr

\* Login, lines 387-403: the error Login returns for what Put returned
LoginErr(ret) ==
    IF ret.err # NilErr
    THEN IF ~Unmarshals(ret.bytes) THEN ret.err ELSE MessageErr
    ELSE IF ~Unmarshals(ret.bytes) THEN DecodeErr
    ELSE IF ret.bytes.key = <<>> THEN NoTokenErr
    ELSE NilErr

\* mutant: Login stores the key of any body that has one, failed PUT or not
LoginTokenAnyStatus(ret, token) ==
    IF Unmarshals(ret.bytes) /\ ret.bytes.key # <<>> THEN ret.bytes.key ELSE token

\* Login, line 401: the token Login stores, given the token it finds
LoginToken(ret, token) ==
    IF LoginErr(ret) = NilErr THEN ret.bytes.key ELSE token

Return(t) ==
    /\ Running
    /\ ReturnKind(t) # "none"
    /\ LET f == Top(t)
           k == ReturnKind(t)
       IN  IF k = "doRequest"
           THEN IF UnlockFatal THEN Crash(t, "fatal: unlock of unlocked mutex")
                ELSE /\ Mutex' = 0
                     /\ UNCHANGED cur
                     /\ ReturnValue(t, f.rbody, f.err)
                     /\ UNCHANGED <<session, calls, crashed, ghost, pure>>
           ELSE IF k = "fast"
           THEN /\ UNCHANGED cur
                /\ ReturnValue(t, EmptyBytes, NilErr)
                /\ UNCHANGED <<Mutex, session, calls, crashed, ghost, pure>>
           ELSE /\ APIToken' = LoginToken(f.ret, APIToken)
                /\ UNCHANGED cur
                /\ ReturnValue(t, EmptyBytes, LoginErr(f.ret))
                /\ UNCHANGED <<Mutex, Method, Endpoint, Headers, QParams, Secure, Tenant,
                               calls, crashed, ghost, pure>>

\* ------------------------------------------------------- specification
Next ==
    \E t \in Threads :
        \/ Call(t)
        \/ Lock(t)
        \/ Build(t)
        \/ Do(t)
        \/ Classify(t)
        \/ Invoke(t)
        \/ Return(t)

Spec == Init /\ [][Next]_vars

\* ------------------------- callers of UpdateHeaders and ill-typed arguments
\* A goroutine that is in no call calls UpdateHeaders, or starts a verb call,
\* which may pass a first body argument that is neither a string nor a map.
CallOther(t) ==
    /\ Running
    /\ stack[t] = <<>>
    /\ calls < MaxCalls
    /\ \/ \E h \in HeaderChoices : UpdateHeaders(t, h)
       \/ \E e \in Endpoints, q \in QParamChoices : Get(t, e, q)
       \/ \E e \in Endpoints, b \in BadBodyParamChoices \cup {<<MapVal>>} :
             \/ BodyVerb(t, "put", e, FALSE, b)
             \/ BodyVerb(t, "post", e, FALSE, b)
             \/ BodyVerb(t, "delete", e, FALSE, b)

NextOther ==
    \E t \in Threads :
        \/ CallOther(t)
        \/ Lock(t)
        \/ Build(t)
        \/ Do(t)
        \/ Classify(t)
        \/ Return(t)

SpecOther == Init /\ [][NextOther]_vars

\* ------------------------------------------- the parameter encoder alone
\* parseParams applied to sequences of "key=value" strings
MaxParams == 2
ParamKeys == {<<"a">>, <<"b">>}
ParamValues == {<<"1">>, <<"true">>, <<"false">>, <<>>, <<"c", "=", "d">>, <<"=">>}
KeyValueStrings == {k \o <<"=">> \o v : k \in ParamKeys, v \in ParamValues}
ParamInputs ==
    UNION {[1..n -> {StrVal(kv) : kv \in KeyValueStrings}] : n \in 0..MaxParams}

InitParams == InitSession /\ input \in ParamInputs /\ output = NoOutput

ApplyParseParams ==
    /\ output = NoOutput
    /\ output' = parseParams(input)
    /\ UNCHANGED <<Mutex, session, stack, calls, cur, result, crashed, ghost, input>>

SpecParams == InitParams /\ [][ApplyParseParams]_vars

\* ------------------------------------------- the template renderer alone
\* prepConn's rendering of the URL for a session's hostname, port, version and
\* endpoint, and parseTemplate applied to mappings of its own
Hostnames == {Hostname, <<"d", "b">>}
Ports == {Port, <<"8", "0">>}
Versions == {APIVersion, <<"2">>}
TemplateEndpoints == {<<>>, <<"a">>, <<"a", "/", "b">>}
PrepConnInputs ==
    [fn : {"prepConn"}, hostname : Hostnames, port : Ports, version : Versions,
     endpoint : TemplateEndpoints]

BaseMap ==
    (<<"hostname">> :> Hostname) @@ (<<"port">> :> Port)
        @@ (<<"endpoint">> :> <<"a">>) @@ (<<"version">> :> APIVersion)
ExtraKeys == {<<"foo">>, <<"hostname", "}}", ":", "{{.", "port">>}
Mappings ==
    {[k \in K \cup X |-> IF k \in DOMAIN BaseMap THEN BaseMap[k] ELSE <<"x">>] :
        K \in SUBSET DOMAIN BaseMap, X \in SUBSET ExtraKeys}
ParseTemplateInputs ==
    [fn : {"parseTemplate"}, fstring : {connTemplate, secConnTemplate}, argm : Mappings]

InitTemplate ==
    /\ InitSession
    /\ input \in PrepConnInputs \cup ParseTemplateInputs
    /\ output = NoOutput

ApplyPrepConn ==
    /\ output = NoOutput
    /\ input.fn = "prepConn"
    /\ output' = prepConnURL(Secure, input.hostname, input.port, input.endpoint,
                             input.version)
    /\ UNCHANGED <<Mutex, session, stack, calls, cur, result, crashed, ghost, input>>

ApplyParseTemplate ==
    /\ output = NoOutput
    /\ input.fn = "parseTemplate"
    /\ output' = parseTemplate(input.fstring, input.argm)
    /\ UNCHANGED <<Mutex, session, stack, calls, cur, result, crashed, ghost, input>>

NextTemplate == ApplyPrepConn \/ ApplyParseTemplate

SpecTemplate == InitTemplate /\ [][NextTemplate]_vars

\* ============================================================== claims
Verbs == {"get", "put", "post", "delete"}

\* goroutine t is in an API call, or the process died while it was
InCall(t) == stack[t] # <<>>
\* the process died in goroutine t's call
DiedIn(t) == crashed.by = t

\* what goroutine t's call has seen: the call in progress, or the one that returned
Seen(t) == IF InCall(t) THEN cur[t] ELSE result[t]
Returned(t) == ~InCall(t) /\ result[t].op # "none"

\* a response of status 401 whose body is named PermissionDeniedError
IsPermDenied(r) ==
    r.status = 401 /\ r.body.kind = "json" /\ r.body.name = permDeniedError

\* the server answered the first exchange of t's call with 401/PermissionDeniedError
FirstDenied(t) ==
    /\ Seen(t).resps # <<>>
    /\ Seen(t).resps[1].depth = 1
    /\ IsPermDenied(Seen(t).resps[1])

\* the reference rule of the response classifier
RefClassify(status, body) ==
    IF status = 401 /\ body.kind = "json" /\ body.name = permDeniedError THEN Retry
    ELSE IF status \in {400, 401, 422, 500} THEN StatusErr(status)
    ELSE NilErr

\* C1: a Get whose first exchange is answered 401/PermissionDeniedError, whose
\* login is accepted and whose retried exchange is answered 200 returns a nil
\* error and the bytes of the second response, after exactly one Login call.
\* The Get has to survive the first answer for that, and when it has returned
\* after the three answers its result is the retry's.
C1_GetSucceedsAfterOneLogin ==
    \A t \in Threads :
        (Seen(t).op = "get" /\ FirstDenied(t)) =>
            /\ ~DiedIn(t)
            /\ (/\ Returned(t)
                /\ Len(result[t].resps) = 3
                /\ result[t].resps[2].status = 200
                /\ result[t].resps[2].body.key # <<>>
                /\ result[t].resps[3].status = 200)
               => /\ result[t].err = NilErr
                  /\ result[t].bytes = result[t].resps[3].body
                  /\ result[t].logins = 1

\* the exchanges of t's call for its own endpoint: the first attempt and the retry
OwnResps(t) == SelectSeq(Seen(t).resps, LAMBDA r : r.depth <= 2)

\* C2: every verb call makes at most one Login call and at most two exchanges
\* for its own endpoint; when both attempts are answered
\* 401/PermissionDeniedError, exactly one Login call is made and the caller gets
\* the classification and the body of the second attempt.
C2_BoundedRetry ==
    \A t \in Threads :
        Seen(t).op \in Verbs =>
            /\ Seen(t).logins <= 1
            /\ Len(OwnResps(t)) <= 2
            /\ FirstDenied(t) => ~DiedIn(t)
            /\ (/\ Returned(t)
                /\ Len(OwnResps(t)) = 2
                /\ IsPermDenied(OwnResps(t)[1])
                /\ IsPermDenied(OwnResps(t)[2]))
               => /\ result[t].logins = 1
                  /\ result[t].err =
                         RefClassify(OwnResps(t)[2].status, OwnResps(t)[2].body)
                  /\ result[t].bytes = OwnResps(t)[2].body

\* every answer t's call has received is 401/PermissionDeniedError
AllDenied(t) ==
    /\ Seen(t).resps # <<>>
    /\ \A i \in 1..Len(Seen(t).resps) : IsPermDenied(Seen(t).resps[i])

\* C3: every verb call returns to its caller, also when the server answers
\* every request with 401/PermissionDeniedError: while such a call is in
\* progress the program can take a step towards its return, and the nesting
\* stays within doRequest -> Login -> doRequest (three frames).
C3_CallReturnsWhenAlwaysDenied ==
    \A t \in Threads :
        (InCall(t) /\ cur[t].op \in Verbs /\ AllDenied(t)) =>
            /\ ENABLED Next
            /\ Len(stack[t]) <= 3

\* C4: Retry is never the error a verb call returns: a call that was answered
\* 401/PermissionDeniedError comes back to its caller, with a nil error or a
\* status error.
C4_RetryNeverReturned ==
    \A t \in Threads :
        Seen(t).op \in Verbs =>
            /\ Returned(t) => result[t].err # Retry
            /\ FirstDenied(t) =>
                   /\ ~DiedIn(t)
                   /\ Returned(t) => result[t].err.kind \in {"nil", "Fatal"}

\* goroutine t is in the Building, InFlight or Classifying step of a call
InPipeline(t) ==
    InCall(t) /\ Top(t).fn = "doRequest" /\ Top(t).pc \in {"build", "do", "classify"}

\* C5: as long as no call has entered the re-authentication retry, the
\* Building, InFlight and Classifying steps of two calls never overlap: at most
\* one goroutine is in them.
C5_ExchangesSerialized ==
    ~retried => Cardinality({t \in Threads : InPipeline(t)}) <= 1

\* an exchange is in flight while a second caller waits for the lock
C5_Witness ==
    /\ ~retried
    /\ \E t1, t2 \in Threads :
          /\ t1 # t2
          /\ InFrame(t1, "doRequest", "do")
          /\ InFrame(t2, "doRequest", "lock")

\* the next statement of goroutine t reads or writes Headers, Endpoint,
\* Method, QParams or APIToken: lines 211-230 (Build), line 288 (the token is
\* cleared), line 385 (Login reads the token), line 401 (Login stores it)
AccessesShared(t) ==
    \/ InFrame(t, "doRequest", "build")
    \/ InFrame(t, "doRequest", "retry")
    \/ InFrame(t, "Login", "check")
    \/ InFrame(t, "Login", "afterPut") /\ LoginErr(Top(t).ret) = NilErr

ReturnsErr(t, e) ==
    /\ Len(stack'[t]) = Len(stack[t]) - 1
    /\ IF Len(stack[t]) = 1
       THEN result'[t].err = e
       ELSE stack'[t][Len(stack[t]) - 1].ret.err = e

\* C7: Login called while the cached token is not empty performs no HTTP
\* exchange, returns success and leaves the token and every other session
\* field unchanged.
C7_LoginFastPath ==
    [][\A t \in Threads :
          (InFrame(t, "Login", "check") /\ APIToken # USetToken
              /\ stack'[t] # stack[t])
          => /\ ReturnsErr(t, NilErr)
             /\ session' = session
             /\ Mutex' = Mutex
             /\ cur' = cur]_vars

\* a second Login, called after the first one stored a token, has returned
\* success without any exchange
C7_Witness ==
    \E t \in Threads :
        /\ Returned(t)
        /\ result[t].op = "login"
        /\ result[t].err = NilErr
        /\ result[t].exch = 0
        /\ APIToken # USetToken
        /\ calls = 2

\* C8: the cached token is empty or a non-empty key that a successful login
\* response carried; and a re-authentication (the Login call of line 289) starts
\* with the token set to empty.
C8_TokenEmptyOrIssued ==
    /\ [](APIToken = USetToken \/ (APIToken # <<>> /\ APIToken \in issued))
    /\ [][\A t \in Threads :
             (InFrame(t, "doRequest", "retry") /\ stack'[t] # stack[t])
             => /\ APIToken' = USetToken
                /\ Top(t)' = LoginFrame]_vars

\* a login has succeeded and its key is the cached token
C8_Witness == APIToken # USetToken /\ APIToken \in issued

\* C9: for every response the pipeline handles, the classification is the
\* reference rule's: 401 with the name PermissionDeniedError gives Retry, 401
\* with another name and 400, 422, 500 give a status error, any other status
\* gives nil.  The classifier gets the response after the pipeline has read
\* its body, and has to classify it, not abort.
C9_ClassifiedAsReference ==
    \A t \in Threads :
        (InCall(t) /\ Top(t).fn = "doRequest") =>
            /\ Top(t).pc = "classify" => ~DiedIn(t)
            /\ (Top(t).pc \in {"retry", "unlock"} /\ Top(t).resp.consumed)
               => Top(t).err = RefClassify(Top(t).resp.status, Top(t).resp.body)

\* C10: a verb call whose exchange fails at transport level returns that error
\* with an empty body after exactly one exchange attempt, without any Login
\* call or retry, and the failing step leaves the cached token unchanged.
C10_TransportErrorIsFinal ==
    /\ [](\A t \in Threads :
             (Returned(t) /\ result[t].op \in Verbs /\ result[t].err = TransportErr)
             => /\ result[t].bytes = EmptyBytes
                /\ result[t].exch = 1
                /\ result[t].logins = 0
                /\ result[t].resps = <<>>)
    /\ [][\A t \in Threads :
             (InFrame(t, "doRequest", "do") /\ Len(stack'[t]) < Len(stack[t]))
             => /\ ReturnsErr(t, TransportErr)
                /\ APIToken' = APIToken]_vars

\* a verb call has returned a transport error while a token was cached
C10_Witness ==
    \E t \in Threads :
        /\ Returned(t)
        /\ result[t].op \in Verbs
        /\ result[t].err = TransportErr
        /\ APIToken # USetToken

\* the requests that goroutine t's call has built and not yet returned from
Requests(t) ==
    {stack[t][i].req : i \in {j \in 1..Len(stack[t]) :
                                 /\ stack[t][j].fn = "doRequest"
                                 /\ stack[t][j].req # NoReq}}

HasHeader(req, name, value) ==
    name \in DOMAIN req.headers /\ req.headers[name] = value

C12_AuthTokenHeaderIsToken ==
    [][\A t \in Threads :
          (InFrame(t, "doRequest", "build") /\ InFrame(t, "doRequest", "do")')
          => LET req == Top(t)'.req
             IN  /\ <<"Auth-Token">> \in DOMAIN req.headers <=> APIToken # USetToken
                 /\ APIToken # USetToken => req.headers[<<"Auth-Token">>] = APIToken]_vars

\* the text of s before and after its first c
FirstIndex(s, c) ==
    CHOOSE i \in 1..Len(s) : s[i] = c /\ \A j \in 1..(i - 1) : s[j] # c
BeforeFirst(s, c) == SubSeq(s, 1, FirstIndex(s, c) - 1)
AfterFirst(s, c) == SubSeq(s, FirstIndex(s, c) + 1, Len(s))

\* C13: the parameter encoder splits every "key=value" string on its first
\* "=": the key is the text before it, the value all the text after it, made a
\* boolean when it reads true or false and left a string otherwise (the last
\* string of a key gives the key's value).
C13_SplitOnFirstEquals ==
    output # NoOutput =>
        /\ output.out = "ok"
        /\ \A i \in 1..Len(input) :
              LET k == BeforeFirst(input[i].s, "=")
                  v == AfterFirst(input[i].s, "=")
              IN  (\A j \in (i + 1)..Len(input) : BeforeFirst(input[j].s, "=") # k)
                  => /\ k \in DOMAIN output.val
                     /\ output.val[k] = IF v = <<"true">> THEN BoolVal(TRUE)
                                        ELSE IF v = <<"false">> THEN BoolVal(FALSE)
                                        ELSE StrVal(v)

BodyVerbs == {"put", "post", "delete"}

\* C14: a Put, Post or Delete whose first body argument is neither a string nor
\* a nested structure returns an encoding error with an empty body, without any
\* exchange; it does not abort the process.
C14_BadArgumentIsAnError ==
    \A t \in Threads :
        (cur[t].op \in BodyVerbs /\ cur[t].arg1 # "")
        => /\ ~DiedIn(t)
           /\ Returned(t)
           /\ result[t].err = EncodingErr
           /\ result[t].bytes = EmptyBytes
           /\ result[t].exch = 0

\* the names that the {{.name}} actions of a template refer to
Referenced(fstring) ==
    {<<fstring[i + 1]>> : i \in {j \in 1..(Len(fstring) - 2) :
                                    fstring[j] = "{{." /\ fstring[j + 2] = "}}"}}

\* the URL of the shape scheme://host:port/vversion/endpoint
URLOf(secure, hostname, port, version, endpoint) ==
    <<IF secure THEN "https://" ELSE "http://">> \o hostname \o <<":">> \o port
        \o <<"/v">> \o version \o <<"/">> \o endpoint

C15_URLShape ==
    (output # NoOutput /\ input.fn = "prepConn")
    => /\ output.ok
       /\ output.text = URLOf(Secure, input.hostname, input.port, input.version,
                              input.endpoint)

C15_UnreferencedKeyFails ==
    (/\ output # NoOutput
     /\ input.fn = "parseTemplate"
     /\ \E k \in DOMAIN input.argm : k \notin Referenced(input.fstring))
    => ~output.ok /\ output.text = <<>>

EmptyKeyLogin(t) ==
    /\ InFrame(t, "Login", "afterPut")
    /\ Top(t).ret.err = NilErr
    /\ Unmarshals(Top(t).ret.bytes)
    /\ Top(t).ret.bytes.key = <<>>

\* C16: when the login exchange succeeds at HTTP level and the decoded login
\* result has an empty key, Login returns the no-token error and leaves the
\* cached token as it is; a Login that returned this error while no login
\* response has carried a key leaves the token empty.
C16_EmptyKeyIsAnError ==
    /\ [](\A t \in Threads :
             (Returned(t) /\ result[t].op = "login" /\ result[t].err = NoTokenErr
                 /\ issued = {})
             => APIToken = USetToken)
    /\ [][\A t \in Threads :
             (EmptyKeyLogin(t) /\ stack'[t] # stack[t])
             => /\ ReturnsErr(t, NoTokenErr)
                /\ APIToken' = APIToken]_vars

\* a Login call has returned the no-token error and the token is empty
C16_Witness ==
    \E t \in Threads :
        /\ Returned(t)
        /\ result[t].op = "login"
        /\ result[t].err = NoTokenErr
        /\ result[t].exch = 1
        /\ APIToken = USetToken

\* the positions of the retried attempts in goroutine t's stack: a doRequest
\* frame with retry set, called by the doRequest frame below it
RetryFrames(t) ==
    {i \in 2..Len(stack[t]) :
        /\ stack[t][i].fn = "doRequest"
        /\ stack[t][i].retry
        /\ stack[t][i].req # NoReq}

C17_RetryIsSent ==
    \A t \in Threads : (Seen(t).op \in Verbs /\ FirstDenied(t)) => ~DiedIn(t)

C17_SameRequest ==
    \A t \in Threads : \A i \in RetryFrames(t) :
        /\ stack[t][i].req.method = stack[t][i - 1].req.method
        /\ stack[t][i].req.url = stack[t][i - 1].req.url
        /\ stack[t][i].req.body = stack[t][i - 1].req.body

\* C17: a verb call whose first attempt is answered 401/PermissionDeniedError
\* goes on to its retried attempt, and the retried attempt sends the request
\* of the first attempt: the same verb, the same body and the same URL, query
\* string included, each query parameter escaped once.
C17_RetrySendsSameRequest == C17_RetryIsSent /\ C17_SameRequest

\* C18: when a verb call has returned to its caller, with or without an
\* error, the caller's goroutine does not hold the session lock: no goroutine
\* that is outside every call holds it.
C18_LockReleasedOnReturn ==
    \A t \in Threads :
        /\ (Returned(t) /\ result[t].op \in Verbs) => Mutex # t
        /\ ~InCall(t) => Mutex # t

====
